---- MODULE Spec2Model ----
\* Model of the match engine of src/server.js: one global match state, a move
\* log, the connected clients and the messages each handler emits.
EXTENDS Integers, Sequences, FiniteSets, TLC

\* ---------------------------------------------------------------------------
\* Bounds of the model
\* ---------------------------------------------------------------------------
\* Number of client connections that are opened.
MaxClients == 2
\* Longest roster a client submits in a setup command.
MaxSetup == 2
\* Move commands are taken while the move log is shorter than this.
MaxMoves == 2

\* ---------------------------------------------------------------------------
\* Program constants and JavaScript values
\* ---------------------------------------------------------------------------
\* Array(5) of Array(5): side of the board.
BoardSize == 5

Rows == 0..(BoardSize - 1)

\* Strings that the code parses are sequences of characters; null and
\* undefined are values no such string equals.
null == <<"null">>
undefined == <<"undefined">>

\* gameState before the first connection.
NoGame == [null |-> TRUE]

Players == {"A", "B"}

P1 == <<"P", "1">>
H1 == <<"H", "1">>
H2 == <<"H", "2">>

\* Piece names that clients submit.
PieceNames == {P1, H1, H2}

\* `${player}-${piece}`
Label(player, piece) == <<player, "-">> \o piece

\* setupPositions values that clients submit: any roster of at most MaxSetup names.
SetupInputs == UNION {[1..n -> PieceNames] : n \in 0..MaxSetup}

\* character values that clients submit: every label, and one without a dash.
CharacterInputs == {Label(p, n) : p \in Players, n \in PieceNames} \cup {P1}

MoveCodes == {<<"L">>, <<"R">>, <<"F">>, <<"B">>, <<"F", "L">>, <<"F", "R">>, <<"B", "L">>, <<"B", "R">>}

\* move values that clients submit: the eight codes and one that is none of them.
MoveInputs == MoveCodes \cup {<<"X">>}

\* String.prototype.split for a one-character separator.
RECURSIVE split(_, _)
split(s, sep) ==
    IF \A i \in 1..Len(s) : s[i] # sep
    THEN <<s>>
    ELSE LET i == CHOOSE k \in 1..Len(s) : s[k] = sep /\ \A j \in 1..(k - 1) : s[j] # sep
         IN <<SubSeq(s, 1, i - 1)>> \o split(SubSeq(s, i + 1, Len(s)), sep)

\* arr[i] with JavaScript's 0-based index; undefined when out of range.
At(arr, i) == IF (i + 1) \in DOMAIN arr THEN arr[i + 1] ELSE undefined

\* String.prototype.endsWith for a one-character suffix.
endsWith(s, c) == Len(s) > 0 /\ s[Len(s)] = c

\* Math.sign
sign(n) == IF n > 0 THEN 1 ELSE IF n < 0 THEN -1 ELSE 0

\* ---------------------------------------------------------------------------
\* State
\* ---------------------------------------------------------------------------
VARIABLES
    gameState,      \* NoGame or [board, players, currentPlayer]
    moveHistory,    \* the move log
    clients,        \* wss.clients: the open connections
    outbox,         \* messages emitted by the last handler, in order
    lastBroadcast,  \* type of the most recent broadcast, "none" before the first
    crashed         \* an exception escaped a message handler

vars == <<gameState, moveHistory, clients, outbox, lastBroadcast, crashed>>

\* initializeGame without the assignment to moveHistory.
initializeGame_keepLog ==
    [gameState |-> [board |-> [x \in Rows |-> [y \in Rows |-> null]],
                    players |-> [A |-> [pieces |-> <<>>], B |-> [pieces |-> <<>>]],
                    currentPlayer |-> "A"],
     moveHistory |-> moveHistory]

\* initializeGame: the values it assigns to gameState and moveHistory.
initializeGame ==
    [gameState |-> [board |-> [x \in Rows |-> [y \in Rows |-> null]],
                    players |-> [A |-> [pieces |-> <<>>], B |-> [pieces |-> <<>>]],
                    currentPlayer |-> "A"],
     moveHistory |-> <<>>]

NewGame == initializeGame.gameState

\* Messages. An init or update message carries gameState as it is when the
\* message is sent; each is sent after the last assignment of its handler, so
\* the state it carries is the state the handler leaves, and the message
\* records its type only. A moveHistory message carries the log in data.

\* ws.send(JSON.stringify(message))
send(ws, message) == [to |-> {ws}, broadcast |-> FALSE, message |-> message]

\* broadcast(message): one copy to every open client.
broadcast(message) == [to |-> clients, broadcast |-> TRUE, message |-> message]

\* The broadcasts among a handler's messages.
Broadcasts(out) == SelectSeq(out, LAMBDA e : e.broadcast)

\* The most recent broadcast after a handler emitted out.
LastBroadcastAfter(out) ==
    IF Broadcasts(out) = <<>> THEN lastBroadcast
    ELSE Broadcasts(out)[Len(Broadcasts(out))].message.type

Init ==
    /\ gameState = NoGame
    /\ moveHistory = <<>>
    /\ clients = {}
    /\ outbox = <<>>
    /\ lastBroadcast = "none"
    /\ crashed = FALSE

\* wss.on('connection'): the first connection creates the match, every
\* connection receives an init message.
Connection ==
    /\ ~crashed
    /\ Cardinality(clients) < MaxClients
    /\ LET ws == Cardinality(clients) + 1
           gs == IF gameState = NoGame THEN NewGame ELSE gameState
       IN /\ clients' = clients \cup {ws}
          /\ gameState' = gs
          /\ moveHistory' = IF gameState = NoGame THEN initializeGame.moveHistory ELSE moveHistory
          /\ outbox' = <<send(ws, [type |-> "init"])>>
    /\ UNCHANGED <<lastBroadcast, crashed>>

\* resetGame that replaces gameState and leaves the move log as it is.
resetGame_keepLog ==
    /\ ~crashed
    /\ clients # {}
    /\ gameState' = initializeGame.gameState
    /\ outbox' = <<broadcast([type |-> "update"])>>
    /\ lastBroadcast' = LastBroadcastAfter(outbox')
    /\ UNCHANGED <<moveHistory, clients, crashed>>

\* resetGame: initializeGame, then broadcast the new state.
resetGame ==
    /\ ~crashed
    /\ clients # {}
    /\ gameState' = initializeGame.gameState
    /\ moveHistory' = initializeGame.moveHistory
    /\ outbox' = <<broadcast([type |-> "update"])>>
    /\ lastBroadcast' = LastBroadcastAfter(outbox')
    /\ UNCHANGED <<clients, crashed>>

\* The other player.
Other(player) == IF player = "A" THEN "B" ELSE "A"

\* handleSetup with the turn passed on before the test for a completed setup,
\* so that a rejected setup passes the turn too.
handleSetup_switchFirst(ws, setupPositions) ==
    /\ ~crashed
    /\ ws \in clients
    /\ LET player == gameState.currentPlayer
           row == IF player = "A" THEN 0 ELSE 4
           pieces == [i \in 1..Len(setupPositions) |->
                         [name |-> setupPositions[i], row |-> row, col |-> i - 1]]
           placed == [gameState EXCEPT
                         !.board[row] = [y \in Rows |->
                             IF (y + 1) \in DOMAIN setupPositions
                             THEN Label(player, setupPositions[y + 1])
                             ELSE @[y]],
                         !.players[player].pieces = pieces]
           switched == [placed EXCEPT !.currentPlayer = Other(player)]
           final == IF Len(switched.players.A.pieces) > 0 /\ Len(switched.players.B.pieces) > 0
                    THEN [switched EXCEPT !.currentPlayer = "A"]
                    ELSE switched
       IN IF Len(gameState.players[player].pieces) > 0
          THEN /\ outbox' = <<send(ws, [type |-> "error", message |-> "Setup already completed."])>>
               /\ gameState' = [gameState EXCEPT !.currentPlayer = Other(player)]
          ELSE /\ gameState' = final
               /\ outbox' = <<broadcast([type |-> "update"])>>
    /\ lastBroadcast' = LastBroadcastAfter(outbox')
    /\ UNCHANGED <<moveHistory, clients, crashed>>

\* handleSetup with the home rows of the two players exchanged.
handleSetup_homeRowsSwapped(ws, setupPositions) ==
    /\ ~crashed
    /\ ws \in clients
    /\ LET player == gameState.currentPlayer
           row == IF player = "A" THEN 4 ELSE 0
           pieces == [i \in 1..Len(setupPositions) |->
                         [name |-> setupPositions[i], row |-> row, col |-> i - 1]]
           placed == [gameState EXCEPT
                         !.board[row] = [y \in Rows |->
                             IF (y + 1) \in DOMAIN setupPositions
                             THEN Label(player, setupPositions[y + 1])
                             ELSE @[y]],
                         !.players[player].pieces = pieces]
           switched == [placed EXCEPT !.currentPlayer = Other(player)]
           final == IF Len(switched.players.A.pieces) > 0 /\ Len(switched.players.B.pieces) > 0
                    THEN [switched EXCEPT !.currentPlayer = "A"]
                    ELSE switched
       IN IF Len(gameState.players[player].pieces) > 0
          THEN /\ outbox' = <<send(ws, [type |-> "error", message |-> "Setup already completed."])>>
               /\ UNCHANGED gameState
          ELSE /\ gameState' = final
               /\ outbox' = <<broadcast([type |-> "update"])>>
    /\ lastBroadcast' = LastBroadcastAfter(outbox')
    /\ UNCHANGED <<moveHistory, clients, crashed>>

\* handleSetup without the test that both players have finished setup: the
\* turn always passes to the other player.
handleSetup_noSwitchBack(ws, setupPositions) ==
    /\ ~crashed
    /\ ws \in clients
    /\ LET player == gameState.currentPlayer
           row == IF player = "A" THEN 0 ELSE 4
           pieces == [i \in 1..Len(setupPositions) |->
                         [name |-> setupPositions[i], row |-> row, col |-> i - 1]]
           placed == [gameState EXCEPT
                         !.board[row] = [y \in Rows |->
                             IF (y + 1) \in DOMAIN setupPositions
                             THEN Label(player, setupPositions[y + 1])
                             ELSE @[y]],
                         !.players[player].pieces = pieces]
           switched == [placed EXCEPT !.currentPlayer = Other(player)]
       IN IF Len(gameState.players[player].pieces) > 0
          THEN /\ outbox' = <<send(ws, [type |-> "error", message |-> "Setup already completed."])>>
               /\ UNCHANGED gameState
          ELSE /\ gameState' = switched
               /\ outbox' = <<broadcast([type |-> "update"])>>
    /\ lastBroadcast' = LastBroadcastAfter(outbox')
    /\ UNCHANGED <<moveHistory, clients, crashed>>

\* handleSetup: place the submitted roster on the current player's home row.
\* Rosters in SetupInputs are shorter than a board row, so every col is a
\* column of the board.
handleSetup(ws, setupPositions) ==
    /\ ~crashed
    /\ ws \in clients
    /\ LET player == gameState.currentPlayer
           row == IF player = "A" THEN 0 ELSE 4
           pieces == [i \in 1..Len(setupPositions) |->
                         [name |-> setupPositions[i], row |-> row, col |-> i - 1]]
           placed == [gameState EXCEPT
                         !.board[row] = [y \in Rows |->
                             IF (y + 1) \in DOMAIN setupPositions
                             THEN Label(player, setupPositions[y + 1])
                             ELSE @[y]],
                         !.players[player].pieces = pieces]
           switched == [placed EXCEPT !.currentPlayer = Other(player)]
           final == IF Len(switched.players.A.pieces) > 0 /\ Len(switched.players.B.pieces) > 0
                    THEN [switched EXCEPT !.currentPlayer = "A"]
                    ELSE switched
       IN IF Len(gameState.players[player].pieces) > 0
          THEN /\ outbox' = <<send(ws, [type |-> "error", message |-> "Setup already completed."])>>
               /\ UNCHANGED gameState
          ELSE /\ gameState' = final
               /\ outbox' = <<broadcast([type |-> "update"])>>
    /\ lastBroadcast' = LastBroadcastAfter(outbox')
    /\ UNCHANGED <<moveHistory, clients, crashed>>

\* findPiece: the first roster entry of player whose name is the part of
\* character after its first dash, as a list of one entry; the empty list
\* stands for undefined.
findPiece(gs, player, character) ==
    LET found == SelectSeq(gs.players[player].pieces,
                           LAMBDA p : p.name = At(split(character, "-"), 1))
    IN IF found = <<>> THEN <<>> ELSE <<found[1]>>

\* capturePiece: drop the roster entries of the cell's owner recorded at the
\* cell, and clear the cell.
capturePiece(gs, position) ==
    LET x == position[1]
        y == position[2]
        character == gs.board[x][y]
    IN IF character # null
       THEN LET player == character[1]
            IN [gs EXCEPT
                   !.players[player].pieces = SelectSeq(@, LAMBDA p : p.row # x \/ p.col # y),
                   !.board[x][y] = null]
       ELSE gs

\* movePawn: result and the match state it leaves.
movePawn(gs, from, to) ==
    LET x == to[1]
        y == to[2]
    IN IF gs.board[x][y] # null /\ gs.board[x][y][1] = gs.currentPlayer
       THEN [moved |-> FALSE, gameState |-> gs]
       ELSE LET placed == [gs EXCEPT !.board[to[1]][to[2]] = gs.board[from[1]][from[2]]]
                cleared == [placed EXCEPT !.board[from[1]][from[2]] = null]
            IN [moved |-> TRUE, gameState |-> capturePiece(cleared, to)]

\* The for loop of moveHero1 and moveHero2 from step i on: stops with
\* inBounds FALSE at the first step off the board, captures every piece on
\* the way that is not the current player's.
RECURSIVE heroPath(_, _, _, _, _, _)
heroPath(gs, fx, fy, dx, dy, i) ==
    IF i > 2 THEN [inBounds |-> TRUE, gameState |-> gs]
    ELSE LET nx == fx + i * dx
             ny == fy + i * dy
         IN IF nx < 0 \/ nx >= 5 \/ ny < 0 \/ ny >= 5
            THEN [inBounds |-> FALSE, gameState |-> gs]
            ELSE heroPath(IF gs.board[nx][ny] # null /\ gs.board[nx][ny][1] # gs.currentPlayer
                          THEN capturePiece(gs, <<nx, ny>>)
                          ELSE gs,
                          fx, fy, dx, dy, i + 1)

\* moveHero1: result and the match state it leaves.
moveHero1(gs, from, to) ==
    LET x == to[1]
        y == to[2]
        fx == from[1]
        fy == from[2]
        path == heroPath(gs, fx, fy, sign(x - fx), sign(y - fy), 1)
    IN IF gs.board[x][y] # null /\ gs.board[x][y][1] = gs.currentPlayer
       THEN [moved |-> FALSE, gameState |-> gs]
       ELSE IF ~path.inBounds
       THEN [moved |-> FALSE, gameState |-> path.gameState]
       ELSE LET placed == [path.gameState EXCEPT
                              !.board[x][y] = path.gameState.board[from[1]][from[2]]]
            IN [moved |-> TRUE,
                gameState |-> [placed EXCEPT !.board[from[1]][from[2]] = null]]

\* moveHero2: result and the match state it leaves.
moveHero2(gs, from, to) ==
    LET x == to[1]
        y == to[2]
        fx == from[1]
        fy == from[2]
        path == heroPath(gs, fx, fy, sign(x - fx), sign(y - fy), 1)
    IN IF gs.board[x][y] # null /\ gs.board[x][y][1] = gs.currentPlayer
       THEN [moved |-> FALSE, gameState |-> gs]
       ELSE IF ~path.inBounds
       THEN [moved |-> FALSE, gameState |-> path.gameState]
       ELSE LET placed == [path.gameState EXCEPT
                              !.board[x][y] = path.gameState.board[from[1]][from[2]]]
            IN [moved |-> TRUE,
                gameState |-> [placed EXCEPT !.board[from[1]][from[2]] = null]]

\* The directions table of processMove.
directions(player) ==
    (<<"L">> :> <<0, -1>>) @@
    (<<"R">> :> <<0, 1>>) @@
    (<<"F">> :> IF player = "A" THEN <<1, 0>> ELSE <<-1, 0>>) @@
    (<<"B">> :> IF player = "A" THEN <<-1, 0>> ELSE <<1, 0>>) @@
    (<<"F", "L">> :> IF player = "A" THEN <<1, -1>> ELSE <<-1, 1>>) @@
    (<<"F", "R">> :> IF player = "A" THEN <<1, 1>> ELSE <<-1, -1>>) @@
    (<<"B", "L">> :> IF player = "A" THEN <<-1, -1>> ELSE <<1, 1>>) @@
    (<<"B", "R">> :> IF player = "A" THEN <<-1, 1>> ELSE <<1, -1>>)

\* The cells of the board that hold character.
CellsHolding(gs, character) ==
    {c \in Rows \X Rows : gs.board[c[1]][c[2]] = character}

\* The scan of processMove over cells: the last of them in row-major order.
\* Defined when cells is not empty.
LastCell(cells) ==
    CHOOSE f \in cells : \A g \in cells : g[1] < f[1] \/ (g[1] = f[1] /\ g[2] <= f[2])

\* moveDescOf written with the label of the command: `${character}: ${move}`
moveDescOf_commandLabel(player, character, move) ==
    character \o <<":", " ">> \o move

\* `${player}-${character.split('-')[1]}: ${move}`
moveDescOf(player, character, move) ==
    <<player, "-">> \o At(split(character, "-"), 1) \o <<":", " ">> \o move

\* processMove: threw is TRUE when directions[move] is undefined and reading
\* its element raises a TypeError; otherwise moved is the returned value.
\* gameState and moveHistory are what the call leaves, out what it broadcast.
processMove(gs, history, player, character, move) ==
    LET rejected == [threw |-> FALSE, moved |-> FALSE, gameState |-> gs,
                     moveHistory |-> history, out |-> <<>>]
        cells == CellsHolding(gs, character)
        dirs == directions(player)
    IN IF cells = {} THEN rejected
       ELSE IF move \notin DOMAIN dirs THEN [rejected EXCEPT !.threw = TRUE]
       ELSE LET from == LastCell(cells)
                to == <<from[1] + dirs[move][1], from[2] + dirs[move][2]>>
                kind == At(At(split(character, "-"), 1), 0)
                r == IF kind = "P" THEN movePawn(gs, from, to)
                     ELSE IF endsWith(character, "1") THEN moveHero1(gs, from, to)
                     ELSE moveHero2(gs, from, to)
                moveDesc == moveDescOf(player, character, move)
            IN IF to[1] < 0 \/ to[1] >= 5 \/ to[2] < 0 \/ to[2] >= 5 THEN rejected
               ELSE IF kind \notin {"P", "H"} THEN rejected
               ELSE IF r.moved
               THEN [threw |-> FALSE, moved |-> TRUE, gameState |-> r.gameState,
                     moveHistory |-> Append(history, moveDesc),
                     out |-> <<broadcast([type |-> "moveHistory",
                                          data |-> Append(history, moveDesc)])>>]
               ELSE [rejected EXCEPT !.gameState = r.gameState]

\* The game-over test of handleMove.
gameOver(gs) ==
    Len(gs.players["A"].pieces) = 0 \/ Len(gs.players["B"].pieces) = 0

\* winnerOf with the two outcomes of its test exchanged.
winnerOf_swapped(gs) == IF Len(gs.players["A"].pieces) = 0 THEN "A" ELSE "B"

\* The winner handleMove names.
winnerOf(gs) == IF Len(gs.players["A"].pieces) = 0 THEN "B" ELSE "A"

\* handleMove: the whole handler of a move message.
handleMove(ws, character, move) ==
    /\ ~crashed
    /\ ws \in clients
    /\ Len(moveHistory) < MaxMoves
    /\ LET player == gameState.currentPlayer
           piece == findPiece(gameState, player, character)
           validMove == processMove(gameState, moveHistory, player, character, move)
           after == validMove.gameState
           winner == winnerOf(after)
           switched == [after EXCEPT !.currentPlayer = Other(player)]
       IN IF piece = <<>>
          THEN /\ outbox' = <<send(ws, [type |-> "error", message |-> "Invalid character."])>>
               /\ UNCHANGED <<gameState, moveHistory, crashed>>
          ELSE IF validMove.threw
          THEN /\ crashed' = TRUE
               /\ outbox' = <<>>
               /\ UNCHANGED <<gameState, moveHistory>>
          ELSE IF ~validMove.moved
          THEN /\ gameState' = after
               /\ outbox' = <<send(ws, [type |-> "error", message |-> "Invalid move."])>>
               /\ UNCHANGED <<moveHistory, crashed>>
          ELSE IF gameOver(after)
          THEN /\ gameState' = initializeGame.gameState
               /\ moveHistory' = initializeGame.moveHistory
               /\ outbox' = validMove.out \o <<broadcast([type |-> "end", winner |-> winner])>>
               /\ UNCHANGED crashed
          ELSE /\ gameState' = switched
               /\ moveHistory' = validMove.moveHistory
               /\ outbox' = validMove.out \o
                      <<broadcast([type |-> "update"]),
                        broadcast([type |-> "moveHistory", data |-> validMove.moveHistory])>>
               /\ UNCHANGED crashed
    /\ lastBroadcast' = LastBroadcastAfter(outbox')
    /\ UNCHANGED clients

\* ws.on('message'): dispatch on the type of the message.
OnMessage ==
    \/ \E ws \in clients, setupPositions \in SetupInputs : handleSetup(ws, setupPositions)
    \/ \E ws \in clients, character \in CharacterInputs, move \in MoveInputs :
           handleMove(ws, character, move)
    \/ resetGame

Next == Connection \/ OnMessage

Spec == Init /\ [][Next]_vars

\* ---------------------------------------------------------------------------
\* Vocabulary of the properties
\* ---------------------------------------------------------------------------
\* The roster of player in gs.
Roster(gs, player) == gs.players[player].pieces

\* The piece name a board label carries after its owner prefix.
NameIn(label) == SubSeq(label, 3, Len(label))

\* The match state that rejections must preserve and moves change.
match == <<gameState, moveHistory>>

\* The step's handler answered with exactly one error, sent to one client.
AnsweredWithError ==
    /\ Len(outbox') = 1
    /\ ~outbox'[1].broadcast
    /\ outbox'[1].message.type = "error"

\* The step's handler accepted a move: processMove broadcast the move log.
MoveAccepted ==
    /\ outbox' # <<>>
    /\ outbox'[1].broadcast
    /\ outbox'[1].message.type = "moveHistory"

\* The entry that the step's accepted move appended to the move log, as the
\* handler broadcast it, and the piece name and move code written in it.
LoggedEntry == outbox'[1].message.data[Len(outbox'[1].message.data)]

LoggedName == At(split(At(split(LoggedEntry, ":"), 0), "-"), 1)

LoggedMove == At(split(LoggedEntry, " "), 1)

\* The step's handler accepted a setup.
SetupAccepted ==
    \E ws \in clients, setupPositions \in SetupInputs :
        /\ handleSetup(ws, setupPositions)
        /\ outbox'[1].broadcast

\* The cell reached from cell c by n steps of offset d.
Step(c, d, n) == <<c[1] + n * d[1], c[2] + n * d[2]>>

OnBoard(c) == c[1] \in Rows /\ c[2] \in Rows

\* C1: in every reachable state the board and the rosters agree: every
\* occupied cell (r,c) holding X-name has exactly one entry of X's roster with
\* that name recorded at (r,c), and every roster entry of X recorded at (r,c)
\* has board[r][c] = X-name.
C1_BoardRosterAgree ==
    gameState # NoGame =>
        /\ \A r \in Rows, c \in Rows :
               gameState.board[r][c] # null =>
                   LET label == gameState.board[r][c]
                       pieces == Roster(gameState, label[1])
                   IN Cardinality({i \in DOMAIN pieces :
                                      /\ pieces[i].name = NameIn(label)
                                      /\ pieces[i].row = r
                                      /\ pieces[i].col = c}) = 1
        /\ \A X \in Players :
               \A i \in DOMAIN Roster(gameState, X) :
                   LET p == Roster(gameState, X)[i]
                   IN gameState.board[p.row][p.col] = Label(X, p.name)

\* C2: every command answered with an error leaves board, rosters,
\* currentPlayer and move log as they were; in particular a long-range move
\* whose second step is off the board captures nothing.
C2_RejectionKeepsState ==
    [][AnsweredWithError => UNCHANGED match]_vars

\* C3: a move command whose character carries the opponent's prefix is
\* rejected with no change of the match state, even when the current player's
\* roster has a piece of the same name.
C3_OpponentPieceRejected ==
    [][\A ws \in clients, character \in CharacterInputs, move \in MoveCodes :
          (/\ character[1] = Other(gameState.currentPlayer)
           /\ handleMove(ws, character, move))
          => (AnsweredWithError /\ UNCHANGED match)]_vars

\* The number of entries of roster that carry name.
CountNamed(roster, name) == Cardinality({i \in DOMAIN roster : roster[i].name = name})

\* The type letter of the piece a label names.
KindOf(character) == At(At(split(character, "-"), 1), 0)

\* Cell q held a piece of player X's opponent before the step, and after the
\* step that piece is off cell q and the opponent's roster has one fewer
\* entry of its name.
EnemyRemoved(X, q) ==
    LET enemy == gameState.board[q[1]][q[2]]
    IN (enemy # null /\ enemy[1] = Other(X)) =>
           /\ gameState'.board[q[1]][q[2]] # enemy
           /\ CountNamed(Roster(gameState', Other(X)), NameIn(enemy))
                  < CountNamed(Roster(gameState, Other(X)), NameIn(enemy))

\* C4: after an accepted move of a short-range piece of the current player X
\* from cell c with offset d, cell c+d holds the moved piece, cell c is empty,
\* and an enemy piece that stood on c+d has left the opponent's roster.
\* (Stated for moves that do not end the match, whose board stays visible.)
C4_ShortRangeMove ==
    [][\A ws \in clients, character \in CharacterInputs, move \in MoveCodes :
          LET X == gameState.currentPlayer
              c == LastCell(CellsHolding(gameState, character))
              dest == Step(c, directions(X)[move], 1)
          IN (/\ character[1] = X
              /\ KindOf(character) = "P"
              /\ handleMove(ws, character, move)
              /\ MoveAccepted
              /\ lastBroadcast' # "end")
             => /\ gameState'.board[dest[1]][dest[2]] = character
                /\ gameState'.board[c[1]][c[2]] = null
                /\ EnemyRemoved(X, dest)]_vars

\* C5: after an accepted move of a long-range piece of the current player
\* from cell c with offset d, the piece stands on c+2d, cell c is empty, and
\* every enemy piece that stood on c+d or c+2d is off the board and out of the
\* opponent's roster. (Stated for moves that do not end the match.)
C5_LongRangeMove ==
    [][\A ws \in clients, character \in CharacterInputs, move \in MoveCodes :
          LET X == gameState.currentPlayer
              c == LastCell(CellsHolding(gameState, character))
              d == directions(X)[move]
          IN (/\ character[1] = X
              /\ KindOf(character) = "H"
              /\ handleMove(ws, character, move)
              /\ MoveAccepted
              /\ lastBroadcast' # "end")
             => /\ OnBoard(Step(c, d, 2))
                /\ gameState'.board[Step(c, d, 2)[1]][Step(c, d, 2)[2]] = character
                /\ gameState'.board[c[1]][c[2]] = null
                /\ EnemyRemoved(X, Step(c, d, 1))
                /\ EnemyRemoved(X, Step(c, d, 2))]_vars

\* The end messages among a handler's messages.
EndMessages(out) == SelectSeq(out, LAMBDA e : e.broadcast /\ e.message.type = "end")

C7_MoveOnlyWhenActive ==
    [][MoveAccepted =>
          Roster(gameState, "A") # <<>> /\ Roster(gameState, "B") # <<>>]_vars

\* C8 as stated: currentPlayer changes only in a step that is an accepted
\* setup or an accepted move, and never in a step answered with an error.
C8_TurnChangesOnlyOnAccept ==
    [][gameState # NoGame =>
          /\ gameState'.currentPlayer # gameState.currentPlayer
                 => (SetupAccepted \/ MoveAccepted)
          /\ AnsweredWithError
                 => gameState'.currentPlayer = gameState.currentPlayer]_vars

\* C8 as amended: currentPlayer changes only in a step that is an accepted
\* setup, an accepted move or a reset, and never in a step answered with an
\* error.
C8_TurnChangesOnAcceptOrReset ==
    [][gameState # NoGame =>
          /\ gameState'.currentPlayer # gameState.currentPlayer
                 => (SetupAccepted \/ MoveAccepted \/ resetGame)
          /\ AnsweredWithError
                 => gameState'.currentPlayer = gameState.currentPlayer]_vars

\* An accepted move passed the turn to B and a command of B was then rejected.
C8_Witness ==
    /\ gameState # NoGame
    /\ gameState.currentPlayer = "B"
    /\ Len(moveHistory) = 1
    /\ Len(outbox) = 1
    /\ outbox[1].message.type = "error"
    /\ outbox[1].message.message = "Invalid move."

\* C9: a move command with a code outside L, R, F, B, FL, FR, BL, BR for a
\* piece in the current player's roster and on the board is answered with an
\* error to its sender, leaves the match state unchanged, and the engine goes
\* on processing commands.
C9_UnknownCodeRejected ==
    [][\A ws \in clients, character \in CharacterInputs, move \in MoveInputs \ MoveCodes :
          (/\ findPiece(gameState, gameState.currentPlayer, character) # <<>>
           /\ CellsHolding(gameState, character) # {}
           /\ handleMove(ws, character, move))
          => /\ AnsweredWithError
             /\ outbox'[1].to = {ws}
             /\ UNCHANGED match
             /\ ~crashed']_vars

\* The message is an update of the step's handler, and the state it carries,
\* the one the handler leaves, is the freshly initialized state.
IsFreshUpdate(e) ==
    /\ e.message.type = "update"
    /\ gameState' = NewGame

\* C10: a handler broadcasts at most one end message, and the broadcast that
\* follows an end message, in the same handler or as the first broadcast of a
\* later one, is an update carrying the freshly initialized state.
C10_EndThenFreshUpdate ==
    [][LET sent == Broadcasts(outbox')
       IN /\ Len(EndMessages(outbox')) <= 1
          /\ \A i \in DOMAIN sent :
                 (sent[i].message.type = "end" /\ i < Len(sent))
                     => IsFreshUpdate(sent[i + 1])
          /\ (lastBroadcast = "end" /\ sent # <<>>) => IsFreshUpdate(sent[1])]_vars

\* The step's handler emitted one message, a broadcast update: what an
\* accepted setup and a reset emit.
UpdateOnly ==
    /\ Len(outbox') = 1
    /\ outbox'[1].broadcast
    /\ outbox'[1].message.type = "update"

\* The step's handler emitted one message, the error of a repeated setup.
SetupRefused ==
    /\ Len(outbox') = 1
    /\ ~outbox'[1].broadcast
    /\ outbox'[1].message.type = "error"
    /\ outbox'[1].message.message = "Setup already completed."

\* The home row of player X.
HomeRow(X) == IF X = "A" THEN 0 ELSE 4

\* C11: an accepted setup by the current player X with names n_0..n_k puts
\* label X-n_i on cell (home row, i) for every i, makes X's roster the entries
\* {n_i, home row, i} in submission order, and changes no other cell and not
\* the other player's roster.
C11_SetupPlacesInOrder ==
    [][UpdateOnly =>
       \A ws \in clients, setupPositions \in SetupInputs :
          handleSetup(ws, setupPositions)
          => LET X == gameState.currentPlayer
                 k == Len(setupPositions)
             IN /\ \A i \in 0..(k - 1) :
                       gameState'.board[HomeRow(X)][i] = <<X, "-">> \o setupPositions[i + 1]
                /\ Len(Roster(gameState', X)) = k
                /\ \A i \in 0..(k - 1) :
                       Roster(gameState', X)[i + 1] =
                           [name |-> setupPositions[i + 1], row |-> HomeRow(X), col |-> i]
                /\ \A r \in Rows, c \in Rows :
                       (r # HomeRow(X) \/ c >= k)
                           => gameState'.board[r][c] = gameState.board[r][c]
                /\ Roster(gameState', Other(X)) = Roster(gameState, Other(X))]_vars

\* Player B's setup of H1, P1 has just been accepted next to A's pieces.
C11_Witness ==
    /\ gameState # NoGame
    /\ outbox = <<broadcast([type |-> "update"])>>
    /\ moveHistory = <<>>
    /\ Roster(gameState, "A") # <<>>
    /\ Roster(gameState, "B") = <<[name |-> H1, row |-> 4, col |-> 0],
                                  [name |-> P1, row |-> 4, col |-> 1]>>
    /\ gameState.board[4][0] = Label("B", H1)
    /\ gameState.board[4][1] = Label("B", P1)
    /\ gameState.board[0][0] # null

\* The step answered client ws with the error of a repeated setup and left
\* the match state as it was.
RefusedUnchanged(ws) ==
    /\ outbox' = <<send(ws, [type |-> "error", message |-> "Setup already completed."])>>
    /\ UNCHANGED match

\* The step replaced no roster that was populated before it.
PopulatedRostersKept ==
    \A X \in Players :
        Roster(gameState, X) # <<>> => Roster(gameState', X) = Roster(gameState, X)

\* C12: a setup command that arrives while the current player's roster is not
\* empty is answered with the error 'Setup already completed.' and changes
\* nothing; and no setup command replaces a roster that is not empty.
C12_SecondSetupRejected ==
    [][(UpdateOnly \/ SetupRefused) =>
       \A ws \in clients :
          \/ RefusedUnchanged(ws)
          \/ /\ Roster(gameState, gameState.currentPlayer) = <<>>
             /\ PopulatedRostersKept
          \/ \A setupPositions \in SetupInputs : ~handleSetup(ws, setupPositions)]_vars

\* A setup was rejected while both rosters were populated.
C12_Witness ==
    /\ gameState # NoGame
    /\ Len(outbox) = 1
    /\ outbox[1].message.type = "error"
    /\ outbox[1].message.message = "Setup already completed."
    /\ Roster(gameState, "A") # <<>>
    /\ Roster(gameState, "B") # <<>>

\* Both rosters of gs are populated.
Active(gs) == Roster(gs, "A") # <<>> /\ Roster(gs, "B") # <<>>

\* C13: an accepted setup passes the turn to the other player, except that
\* currentPlayer is A when both rosters are populated after it; and the first
\* accepted move made with both rosters populated is made by player A.
C13_TurnAfterSetup ==
    [][/\ (UpdateOnly /\ SetupAccepted)
           => gameState'.currentPlayer =
                  IF Active(gameState') THEN "A" ELSE Other(gameState.currentPlayer)
       /\ (MoveAccepted /\ Active(gameState) /\ moveHistory = <<>>)
           => /\ gameState.currentPlayer = "A"
              /\ LoggedEntry[1] = "A"]_vars

\* A setup has just been accepted that left both rosters populated, and the
\* turn is A's.
C13_Witness ==
    /\ gameState # NoGame
    /\ outbox = <<broadcast([type |-> "update"])>>
    /\ moveHistory = <<>>
    /\ Active(gameState)
    /\ gameState.currentPlayer = "A"
    /\ gameState.board[4][0] # null

\* The empty SETUP state: no piece on the board, no roster entry, player A to
\* act, nothing in the move log.
EmptySetup ==
    /\ gameState # NoGame
    /\ \A r \in Rows, c \in Rows : gameState.board[r][c] = null
    /\ Roster(gameState, "A") = <<>>
    /\ Roster(gameState, "B") = <<>>
    /\ gameState.currentPlayer = "A"
    /\ moveHistory = <<>>

\* The engine is running and has a client that can send it a command.
Serving == clients # {} /\ ~crashed

\* C14: a reset is possible in every state in which the engine serves a
\* client, it leaves the empty SETUP state whatever the state before, and a
\* reset of the state a reset left changes neither the match state nor what
\* is broadcast.
C14_ResetIdempotent ==
    /\ [](Serving => ENABLED resetGame)
    /\ [][resetGame =>
             /\ EmptySetup'
             /\ Serving'
             /\ (EmptySetup /\ outbox = <<broadcast([type |-> "update"])>>)
                    => UNCHANGED <<gameState, moveHistory, outbox>>]_vars

\* A reset has just been broadcast to two clients.
C14_Witness ==
    /\ EmptySetup
    /\ Cardinality(clients) = 2
    /\ outbox = <<broadcast([type |-> "update"])>>
    /\ lastBroadcast = "update"

\* The move command (character, move) is not carried out in the current
\* state: the piece is not in the current player's roster, or processMove
\* does not move it.
MoveNotCarriedOut(character, move) ==
    \/ findPiece(gameState, gameState.currentPlayer, character) = <<>>
    \/ ~processMove(gameState, moveHistory, gameState.currentPlayer, character, move).moved

\* The error texts of the three rejections.
RejectionTexts == {"Setup already completed.", "Invalid character.", "Invalid move."}

\* The step's handler emitted exactly one message, an error with one of the
\* three texts, to client ws alone.
OneErrorTo(ws) ==
    /\ Len(outbox') = 1
    /\ ~outbox'[1].broadcast
    /\ outbox'[1].to = {ws}
    /\ outbox'[1].message.type = "error"
    /\ outbox'[1].message.message \in RejectionTexts

\* C15: every rejected command (a setup while the current player's roster is
\* populated, a move that is not carried out) produces exactly one error
\* message with one of the three texts, delivered to the sender alone, and no
\* broadcast.
C15_RejectionIsOneLocalError ==
    [][/\ \A ws \in clients, setupPositions \in SetupInputs :
              (/\ Roster(gameState, gameState.currentPlayer) # <<>>
               /\ handleSetup(ws, setupPositions))
              => OneErrorTo(ws)
       /\ \A ws \in clients, character \in CharacterInputs, move \in MoveInputs :
              (/\ handleMove(ws, character, move)
               /\ MoveNotCarriedOut(character, move))
              => OneErrorTo(ws)]_vars

\* C16: in the directional table of whichever player is to act, codes L and
\* R map to (0,-1) and (0,1), and for each
\* of F, B, FL, FR, BL, BR player B's offset is player A's with the row
\* component negated and the column component unchanged, A's forward being
\* increasing row.
C16_TableMirroredAlongRows ==
    gameState # NoGame =>
        LET X == gameState.currentPlayer
        IN /\ directions(X)[<<"L">>] = <<0, -1>>
           /\ directions(X)[<<"R">>] = <<0, 1>>
           /\ directions("A")[<<"F">>][1] > 0
           /\ X = "B" =>
                  \A move \in MoveCodes \ {<<"L">>, <<"R">>} :
                      directions(X)[move] =
                          <<- directions("A")[move][1], directions("A")[move][2]>>

\* The offset has exactly one component that is not zero.
Straight(d) == (d[1] = 0) # (d[2] = 0)

\* Both components of the offset are not zero.
Diagonal(d) == d[1] # 0 /\ d[2] # 0

\* C18: every accepted move of a long-range piece whose label ends in 1 uses
\* a straight offset, and every accepted move of any other long-range piece
\* uses a diagonal offset.
C18_VariantKeepsLineType ==
    [][MoveAccepted =>
       \A ws \in clients, character \in CharacterInputs, move \in MoveCodes :
          (/\ KindOf(character) = "H"
           /\ handleMove(ws, character, move))
          => LET d == directions(gameState.currentPlayer)[move]
             IN IF character[Len(character)] = "1" THEN Straight(d) ELSE Diagonal(d)]_vars

\* C19: an accepted move (one that does not end the match, whose state stays
\* visible) removes no entry from the moving player's roster, leaves every
\* piece of the moving player other than the moved one on its cell, and
\* leaves the moved piece on the board.
C19_MoveSparesOwnSide ==
    [][(MoveAccepted /\ lastBroadcast' # "end") =>
       LET X == gameState.currentPlayer
           moved == <<X, "-">> \o LoggedName
       IN /\ Roster(gameState', X) = Roster(gameState, X)
          /\ \A r \in Rows, c \in Rows :
                 (gameState.board[r][c] # null /\ gameState.board[r][c][1] = X)
                     => \/ gameState'.board[r][c] = gameState.board[r][c]
                        \/ /\ gameState.board[r][c] = moved
                           /\ CellsHolding(gameState', moved) # {}]_vars

\* The log entry 'X-N: M'.
Entry(X, N, M) == <<X, "-">> \o N \o <<":", " ">> \o M

\* C17: an accepted move appends exactly one entry to the log as it is
\* broadcast and changes no earlier entry; the entry is 'X-N: M' for the
\* current player X and a command, for the piece named N with code M, that
\* the step carries out; the log is empty after a win and after a reset; every
\* other step (a rejected command, an accepted setup, a connection) leaves the
\* log as it was.
C17_LogAppendOnly ==
    [][/\ MoveAccepted =>
              LET X == gameState.currentPlayer
                  logged == outbox'[1].message.data
              IN /\ Len(logged) = Len(moveHistory) + 1
                 /\ SubSeq(logged, 1, Len(moveHistory)) = moveHistory
                 /\ moveHistory' = IF lastBroadcast' = "end" THEN <<>> ELSE logged
                 /\ \E ws \in clients, character \in CharacterInputs, move \in {LoggedMove} :
                        /\ move \in MoveCodes
                        /\ Entry(X, NameIn(character), move) = logged[Len(logged)]
                        /\ handleMove(ws, character, move)
       /\ resetGame => moveHistory' = <<>>
       /\ ~MoveAccepted => (moveHistory' = moveHistory \/ resetGame)]_vars

\* A second move has been logged after the first.
C17_Witness ==
    /\ Len(moveHistory) = 2
    /\ Len(outbox) = 3
    /\ outbox[1].message.type = "moveHistory"
    /\ outbox[1].message.data = moveHistory
    /\ moveHistory[1] = Entry("A", H1, <<"F">>)

\* The player prefix of a log entry.
PrefixOf(entry) == entry[1]

\* C20: any two consecutive entries of the move log carry different player
\* prefixes, and the first entry of a log that is not empty carries prefix A.
C20_LogAlternates ==
    /\ moveHistory # <<>> => PrefixOf(moveHistory[1]) = "A"
    /\ \A i \in 1..(Len(moveHistory) - 1) :
           PrefixOf(moveHistory[i]) # PrefixOf(moveHistory[i + 1])

\* A move of A and then a move of B are in the log.
C20_Witness ==
    /\ Len(moveHistory) = 2
    /\ PrefixOf(moveHistory[1]) = "A"
    /\ PrefixOf(moveHistory[2]) = "B"
    /\ gameState.currentPlayer = "A"

====
